---- MODULE Spec2Model ----
(***************************************************************************)
(* A model of InsiderThreatDetector                                        *)
(* (AICDAP/backend/services/insider_threat/graph_analyzer.py): the day     *)
(* selection of run_analysis, build_graph, train_model, get_predictions    *)
(* and the visualization export, with the instance fields (node_id,        *)
(* node_type, data, model, malicious_users, malicious_days) as state.      *)
(*                                                                         *)
(* Days are day numbers (a datetime.date is ordered and subtracts like its *)
(* ordinal).  User, pc and domain identifiers are strings drawn from one   *)
(* set, because the code keys all three by the bare string in one dict.    *)
(* A log row is [user, pc, day] (logon, device) or [user, domain, day]     *)
(* (http); the count columns only feed edge_attr, which no later stage     *)
(* reads, and are left out.                                                *)
(***************************************************************************)
EXTENDS Integers, Sequences, FiniteSets, TLC

VARIABLES
    malicious_users,  \* self.malicious_users
    malicious_days,   \* self.malicious_days
    node_id,          \* self.node_id: name -> index
    node_type,        \* self.node_type: index -> "user" | "pc" | "domain"
    node_key,         \* index -> the name the loops of build_graph gave it to
    data,             \* self.data: the graph, or NoData
    model,            \* self.model: "None" or "GNN"
    logon,            \* run_analysis / build_graph: the logon rows
    device,           \* the device rows
    http,             \* the http rows
    all_days,         \* run_analysis: all_days
    selected_day,     \* run_analysis: selected_day (NoDay before selection)
    training_losses,  \* run_analysis: the number of entries of training_losses
    suspicious_users, \* run_analysis: the list get_predictions returned
    pc,               \* the position of the run
    stages,           \* the stages started so far, in order
    result,           \* the value run_analysis returns
    raw_scores,       \* get_predictions: scores before the boosting loop
    top_k,            \* get_predictions: the top_k of the last call
    last_call,        \* the method last called on the instance from outside
    raised,           \* the message of the exception that call raised, or ""
    answers,          \* load_malicious_data: the answer files not yet read
    epoch,            \* train_model: the epochs completed by the call in progress
    injections,       \* train_model: the epochs of that call that injected labels
    loop_task,        \* the request the event loop is executing, 0 when idle
    task_pc,          \* request -> the stage its run_analysis stands before
    writer            \* instance field -> the request that wrote it last, 0 if none

vars == <<malicious_users, malicious_days, node_id, node_type, node_key, data, model,
          logon, device, http, all_days, selected_day, training_losses,
          suspicious_users, pc, stages, result, raw_scores, top_k, last_call,
          raised, answers, epoch, injections, loop_task, task_pc, writer>>

-----------------------------------------------------------------------------
(* Bounds of the model *)

MaxDay == 4
MaxDayRecs == 3
MaxLogDay == 2
MaxRecs == 2
MaxRunRecs == 1
MaxTrainRecs == 5
MaxTopK == 2
MaxAnsRows == 3
MaxTasks == 3
MaxEpochRecs == 4

Names == {"a", "b"}
Days == 1..MaxDay
LogDays == 1..MaxLogDay
NoDay == 0

-----------------------------------------------------------------------------
(* Python helpers *)

Abs(n) == IF n < 0 THEN -n ELSE n

SetMin(S) == CHOOSE m \in S : \A o \in S : m <= o

\* max() taking the earliest day
SetMaxEarliest(S) == CHOOSE m \in S : \A o \in S : m <= o

SetMax(S) == CHOOSE m \in S : \A o \in S : o <= m

\* sorted(S) for a set of days
RECURSIVE Sorted(_)
Sorted(S) == IF S = {} THEN <<>>
             ELSE LET m == SetMin(S) IN <<m>> \o Sorted(S \ {m})

\* the scan keeping the last element with the smallest key
RECURSIVE MinScanLast(_, _, _, _)
MinScanLast(lst, i, best, target) ==
    IF i > Len(lst) THEN best
    ELSE MinScanLast(lst, i + 1,
                     IF Abs(lst[i] - target) <= Abs(best - target) THEN lst[i] ELSE best,
                     target)

\* min(lst, key=lambda x: abs((x - target).days)): a left-to-right scan that
\* keeps the first element with the smallest key
RECURSIVE MinScan(_, _, _, _)
MinScan(lst, i, best, target) ==
    IF i > Len(lst) THEN best
    ELSE MinScan(lst, i + 1,
                 IF Abs(lst[i] - target) < Abs(best - target) THEN lst[i] ELSE best,
                 target)

MinByDistance(lst, target) == MinScan(lst, 2, lst[1], target)

\* set(frame["day"])
DaysOf(rows) == {rows[i].day : i \in 1..Len(rows)}

\* the triples of lengths of three frames that hold at most n rows together
Lengths(n) == {k \in (0..n) \X (0..n) \X (0..n) : k[1] + k[2] + k[3] <= n}

-----------------------------------------------------------------------------
(* The instance after __init__, and the values that stand for None *)

EmptyFn == [i \in {} |-> 0]

NoData == [num_nodes |-> 0, x |-> EmptyFn, edge_index |-> <<>>,
           y |-> EmptyFn, train_mask |-> EmptyFn]

NoViz == [nodes |-> {}, edges |-> <<>>,
          stats |-> [total_nodes |-> 0, total_edges |-> 0, malicious_users |-> 0]]

NoResult == [status |-> "none", error |-> "", analysis_date |-> NoDay,
             suspicious_users |-> <<>>, graph_data |-> NoViz,
             training_losses |-> 0, summary |-> <<>>]

\* the dict run_analysis returns from its except branch
ErrorResult(msg) == [status |-> "error", error |-> msg, analysis_date |-> NoDay,
                     suspicious_users |-> <<>>, graph_data |-> NoViz,
                     training_losses |-> 0, summary |-> <<>>]

-----------------------------------------------------------------------------
(* load_malicious_data, load_background_logs, create_mock_data *)

LogRows == [user : Names, pc : Names, day : LogDays]

HttpRows == [user : Names, domain : Names, day : LogDays]

\* the number of entries of self.ans_files
NumAnswerFiles == 2

\* a row of an answer file: column 3 is the user, column 2 the date, NoDay
\* for a date of the "MM/DD/YYYY HH:MM:SS" shape that does not parse
AnswerRows(days) == [user : Names, day : days \cup {NoDay}]

\* what load_malicious_data can meet under one file name: no file, a file
\* of fewer than 4 columns, a file read_csv raises on, or a frame of 1..n
\* rows
AnswerFiles(n, days) ==
    {[kind |-> k, rows |-> <<>>] : k \in {"missing", "short", "unreadable"}}
        \cup {[kind |-> "rows", rows |-> r] :
                 r \in UNION {[1..m -> AnswerRows(days)] : m \in 1..n}}

\* self.malicious_users.update(users.dropna().unique()): the users of all
\* rows of the frame
FileUsers(f) == {f.rows[j].user : j \in 1..Len(f.rows)}

\* the list days: a date that raises in pd.to_datetime is passed over by
\* "except: continue"
FileDays(f) == {f.rows[j].day : j \in {k \in 1..Len(f.rows) : f.rows[k].day # NoDay}}

\* the loop over self.ans_files from file i on: a missing or short file is
\* passed over with continue, an exception ends the loop in the outer except
RECURSIVE ReadAnswers(_, _, _, _)
ReadAnswers(files, i, users, days) ==
    IF i > Len(files) THEN [users |-> users, days |-> days]
    ELSE IF files[i].kind = "unreadable" THEN [users |-> users, days |-> days]
    ELSE IF files[i].kind \in {"missing", "short"}
         THEN ReadAnswers(files, i + 1, users, days)
         ELSE ReadAnswers(files, i + 1, users \cup FileUsers(files[i]),
                          days \cup FileDays(files[i]))

\* run_analysis: await self.load_malicious_data(); it raises nothing
LoadMaliciousData ==
    /\ pc = "load_malicious_data"
    /\ UNCHANGED <<epoch, injections, loop_task, task_pc, writer>>
    /\ stages' = Append(stages, "load_malicious_data")
    /\ LET read == ReadAnswers(answers, 1, malicious_users, malicious_days) IN
          /\ malicious_users' = read.users
          /\ malicious_days' = read.days
    /\ answers' = <<>>
    /\ pc' = "load_background_logs"
    /\ UNCHANGED <<raw_scores, top_k, last_call, raised>>
    /\ UNCHANGED <<node_id, node_type, node_key, data, model, logon, device,
                   http, all_days, selected_day, training_losses,
                   suspicious_users, result>>

\* the malicious sets create_mock_data assigns: three of its fifty users,
\* one day inside the year its rows are drawn from
MockMaliciousUsers == {"a"}

MockMaliciousDays == {SetMin(LogDays)}

\* the three frames read from the processed files, or the frames of
\* create_mock_data (a file is missing, or reading raised), which also
\* replaces the malicious sets
LoadBackgroundLogs ==
    /\ pc = "load_background_logs"
    /\ UNCHANGED <<answers, epoch, injections, loop_task, task_pc, writer>>
    /\ stages' = Append(stages, "load_background_logs")
    /\ \E k \in Lengths(MaxRunRecs) :
       \E lg \in [1..k[1] -> LogRows], dv \in [1..k[2] -> LogRows],
          ht \in [1..k[3] -> HttpRows] :
          /\ logon' = lg
          /\ device' = dv
          /\ http' = ht
          /\ \/ UNCHANGED <<malicious_users, malicious_days>>
             \/ /\ Len(lg) > 0
                /\ malicious_users' = MockMaliciousUsers
                /\ malicious_days' = MockMaliciousDays
    /\ pc' = "select_day"
    /\ UNCHANGED <<raw_scores, top_k, last_call, raised>>
    /\ UNCHANGED <<node_id, node_type, node_key, data, model, all_days,
                   selected_day, training_losses, suspicious_users, result>>

-----------------------------------------------------------------------------
(* run_analysis, day selection *)

AllDays(lg, dv, ht) == DaysOf(lg) \cup DaysOf(dv) \cup DaysOf(ht)

\* the selection using the first malicious day itself when no day matches
SelectedDayTarget(days, mdays) ==
    IF mdays # {}
    THEN LET candidate_days == Sorted(days \cap mdays) IN
         IF candidate_days # <<>> THEN candidate_days[1] ELSE Sorted(mdays)[1]
    ELSE IF days # {} THEN SetMax(days) ELSE NoDay

\* the selection taking the last matching day, candidate_days[-1]
SelectedDayLastMatch(days, mdays) ==
    IF mdays # {}
    THEN LET candidate_days == Sorted(days \cap mdays) IN
         IF candidate_days # <<>>
         THEN candidate_days[Len(candidate_days)]
         ELSE MinByDistance(Sorted(days), Sorted(mdays)[1])
    ELSE IF days # {} THEN SetMax(days) ELSE NoDay

\* the selection without the else branch for empty malicious days
SelectedDayNeedsTruth(days, mdays) ==
    IF mdays # {}
    THEN LET candidate_days == Sorted(days \cap mdays) IN
         IF candidate_days # <<>>
         THEN candidate_days[1]
         ELSE MinByDistance(Sorted(days), Sorted(mdays)[1])
    ELSE NoDay

\* the day the if/else of run_analysis selects, for a non-empty set of days
SelectedDay(days, mdays) ==
    IF mdays # {}
    THEN LET candidate_days == Sorted(days \cap mdays) IN
         IF candidate_days # <<>>
         THEN candidate_days[1]
         ELSE IF days # {} /\ mdays # {}
              THEN MinByDistance(Sorted(days), Sorted(mdays)[1])
              ELSE IF days # {} THEN SetMax(days) ELSE NoDay
    ELSE IF days # {} THEN SetMax(days) ELSE NoDay

\* the selection without the date-range log line and without the
\* "if not selected_day" check: the run goes on to build_graph
SelectDayUnchecked ==
    /\ pc = "select_day"
    /\ UNCHANGED <<answers, epoch, injections, loop_task, task_pc, writer>>
    /\ stages' = Append(stages, "select_day")
    /\ all_days' = AllDays(logon, device, http)
    /\ selected_day' = SelectedDay(AllDays(logon, device, http), malicious_days)
    /\ result' = result
    /\ pc' = "build_graph"
    /\ UNCHANGED <<raw_scores, top_k, last_call, raised>>
    /\ UNCHANGED <<malicious_users, malicious_days, node_id, node_type, node_key,
                   data, model, logon, device, http, training_losses,
                   suspicious_users>>

\* the selection whose failure is recorded while the run goes on to
\* build_graph
SelectDayNoReturn ==
    /\ pc = "select_day"
    /\ UNCHANGED <<answers, epoch, injections, loop_task, task_pc, writer>>
    /\ stages' = Append(stages, "select_day")
    /\ all_days' = AllDays(logon, device, http)
    /\ selected_day' = SelectedDay(AllDays(logon, device, http), malicious_days)
    /\ result' = IF AllDays(logon, device, http) = {}
                 THEN ErrorResult("min() arg is an empty sequence")
                 ELSE result
    /\ pc' = "build_graph"
    /\ UNCHANGED <<raw_scores, top_k, last_call, raised>>
    /\ UNCHANGED <<malicious_users, malicious_days, node_id, node_type, node_key,
                   data, model, logon, device, http, training_losses,
                   suspicious_users>>

\* all_days is computed, min(all_days) of the date-range log line raises
\* ValueError on an empty set, else the day is selected; "if not selected_day"
\* raises RuntimeError
SelectDay ==
    /\ pc = "select_day"
    /\ UNCHANGED <<answers, epoch, injections, loop_task, task_pc, writer>>
    /\ stages' = Append(stages, "select_day")
    /\ all_days' = AllDays(logon, device, http)
    /\ IF AllDays(logon, device, http) = {}
       THEN /\ selected_day' = selected_day
            /\ result' = ErrorResult("min() arg is an empty sequence")
            /\ pc' = "done"
       ELSE LET d == SelectedDay(AllDays(logon, device, http), malicious_days) IN
            /\ selected_day' = d
            /\ IF d = NoDay
               THEN /\ result' = ErrorResult("No valid days found for analysis")
                    /\ pc' = "done"
               ELSE /\ result' = result
                    /\ pc' = "build_graph"
    /\ UNCHANGED <<raw_scores, top_k, last_call, raised>>
    /\ UNCHANGED <<malicious_users, malicious_days, node_id, node_type, node_key,
                   data, model, logon, device, http, training_losses,
                   suspicious_users>>

-----------------------------------------------------------------------------
(* build_graph *)

\* frame[frame["day"] == selected_day]
OnDay(rows, day) == SelectSeq(rows, LAMBDA r : r.day = day)

UsersOf(rows) == {rows[i].user : i \in 1..Len(rows)}

PcsOf(rows) == {rows[i].pc : i \in 1..Len(rows)}

DomainsOf(rows) == {rows[i].domain : i \in 1..Len(rows)}

\* the orders in which "for u in users" can visit a set of strings
Orders(S) == {o \in [1..Cardinality(S) -> S] : \A i, j \in DOMAIN o : o[i] = o[j] => i = j}

\* d[k] = v on a dict
Put(d, k, v) == [n \in DOMAIN d \cup {k} |-> IF n = k THEN v ELSE d[n]]

\* for n in order: self.node_id[n] = idx; idx += 1
RECURSIVE AddNodes(_, _, _, _)
AddNodes(ids, order, i, idx) ==
    IF i > Len(order) THEN ids
    ELSE AddNodes(Put(ids, order[i], idx), order, i + 1, idx + 1)

\* self.node_id after the three loops
NodeIds(uorder, porder, dorder) ==
    AddNodes(AddNodes(AddNodes(EmptyFn, uorder, 1, 0),
                      porder, 1, Len(uorder)),
             dorder, 1, Len(uorder) + Len(porder))

\* num_nodes taken as len(self.node_id)
NumNodesKeys(uorder, porder, dorder) ==
    Cardinality(DOMAIN NodeIds(uorder, porder, dorder))

\* idx after the three loops: num_nodes
NumNodes(uorder, porder, dorder) == Len(uorder) + Len(porder) + Len(dorder)

\* the name each value of idx was given to
NodeKeys(uorder, porder, dorder) ==
    [i \in 0..(NumNodes(uorder, porder, dorder) - 1) |-> (uorder \o porder \o dorder)[i + 1]]

\* self.node_type after the three loops: one entry per value idx has taken
NodeTypes(nu, np, nd) ==
    [i \in 0..(nu + np + nd - 1) |->
        IF i < nu THEN "user" ELSE IF i < nu + np THEN "pc" ELSE "domain"]

\* the edges of the rows with one edge per (user, pc) pair
RECURSIVE PcEdgesMerged(_, _, _)
PcEdgesMerged(rows, ids, i) ==
    IF i > Len(rows) THEN <<>>
    ELSE (IF /\ rows[i].user \in DOMAIN ids /\ rows[i].pc \in DOMAIN ids
             /\ \A j \in 1..(i - 1) :
                    rows[j].user # rows[i].user \/ rows[j].pc # rows[i].pc
          THEN << <<ids[rows[i].user], ids[rows[i].pc]>> >>
          ELSE <<>>) \o PcEdgesMerged(rows, ids, i + 1)

\* the edges of the logon or device rows, one per row that passes the check
RECURSIVE PcEdges(_, _, _)
PcEdges(rows, ids, i) ==
    IF i > Len(rows) THEN <<>>
    ELSE (IF rows[i].user \in DOMAIN ids /\ rows[i].pc \in DOMAIN ids
          THEN << <<ids[rows[i].user], ids[rows[i].pc]>> >>
          ELSE <<>>) \o PcEdges(rows, ids, i + 1)

\* the edges of the http rows
RECURSIVE DomainEdges(_, _, _)
DomainEdges(rows, ids, i) ==
    IF i > Len(rows) THEN <<>>
    ELSE (IF rows[i].user \in DOMAIN ids /\ rows[i].domain \in DOMAIN ids
          THEN << <<ids[rows[i].user], ids[rows[i].domain]>> >>
          ELSE <<>>) \o DomainEdges(rows, ids, i + 1)

\* x after the indexed "x[[s, t]] += 1", which adds 1 once when s = t
RECURSIVE DegreesIndexed(_, _, _)
DegreesIndexed(x, edges, i) ==
    IF i > Len(edges) THEN x
    ELSE LET s == edges[i][1]
             t == edges[i][2]
         IN DegreesIndexed([j \in DOMAIN x |-> IF j = s \/ j = t THEN x[j] + 1 ELSE x[j]],
                           edges, i + 1)

\* x after "for s, t in edge_index.t(): x[s] += 1; x[t] += 1"
RECURSIVE Degrees(_, _, _)
Degrees(x, edges, i) ==
    IF i > Len(edges) THEN x
    ELSE LET s == edges[i][1]
             t == edges[i][2]
             xs == [x EXCEPT ![s] = @ + 1]
         IN Degrees([xs EXCEPT ![t] = @ + 1], edges, i + 1)

\* y after "for name, idx in self.node_id.items(): if name in
\* self.malicious_users: y[idx] = 1"
Labels(n, ids, musers) ==
    [i \in 0..(n - 1) |->
        IF \E name \in DOMAIN ids : ids[name] = i /\ name \in musers THEN 1 ELSE 0]

\* train_mask after the same loop: "if self.node_type[idx] == "user":
\* train_mask[idx] = True"
TrainMask(n, ids, types) ==
    [i \in 0..(n - 1) |->
        \E name \in DOMAIN ids : ids[name] = i /\ types[i] = "user"]

\* Data(x, edge_index, y, train_mask)
GraphData(n, edges, ids, types, musers) ==
    [num_nodes |-> n,
     x |-> Degrees([i \in 0..(n - 1) |-> 0], edges, 1),
     edge_index |-> edges,
     y |-> Labels(n, ids, musers),
     train_mask |-> TrainMask(n, ids, types)]

\* build_graph(lg, dv, ht, day) on the instance; the sets are visited in the
\* orders uorder, porder, dorder.  node_id and node_type are replaced before
\* the edges are looked at, data only when there is an edge.
BuildGraphWith(lg, dv, ht, day, uorder, porder, dorder) ==
    LET logon_day == OnDay(lg, day)
        device_day == OnDay(dv, day)
        http_day == OnDay(ht, day)
        ids == NodeIds(uorder, porder, dorder)
        n == NumNodes(uorder, porder, dorder)
        types == NodeTypes(Len(uorder), Len(porder), Len(dorder))
        edges == PcEdges(logon_day, ids, 1) \o PcEdges(device_day, ids, 1)
                 \o DomainEdges(http_day, ids, 1)
    IN /\ node_id' = ids
       /\ node_type' = types
       /\ node_key' = NodeKeys(uorder, porder, dorder)
       /\ data' = IF edges = <<>> THEN data
                  ELSE GraphData(n, edges, ids, types, malicious_users)

BuildGraphCall(lg, dv, ht, day) ==
    LET users == UsersOf(OnDay(lg, day)) \cup UsersOf(OnDay(dv, day))
                 \cup UsersOf(OnDay(ht, day))
        pcs == PcsOf(OnDay(lg, day)) \cup PcsOf(OnDay(dv, day))
        domains == DomainsOf(OnDay(ht, day))
    IN \E uorder \in Orders(users), porder \in Orders(pcs), dorder \in Orders(domains) :
           BuildGraphWith(lg, dv, ht, day, uorder, porder, dorder)

\* whether build_graph(lg, dv, ht, day) returns None: "if not edges"
NoEdges(lg, dv, ht, day) ==
    Len(OnDay(lg, day)) + Len(OnDay(dv, day)) + Len(OnDay(ht, day)) = 0

\* the build_graph stage without "if graph_data is None: raise": the run
\* goes on to train_model
BuildGraphUnchecked ==
    /\ pc = "build_graph"
    /\ UNCHANGED <<answers, epoch, injections, loop_task, task_pc, writer>>
    /\ stages' = Append(stages, "build_graph")
    /\ BuildGraphCall(logon, device, http, selected_day)
    /\ result' = result
    /\ pc' = "train_model"
    /\ UNCHANGED <<raw_scores, top_k, last_call, raised>>
    /\ UNCHANGED <<malicious_users, malicious_days, model, logon, device, http,
                   all_days, selected_day, training_losses, suspicious_users>>

\* run_analysis: graph_data = await self.build_graph(...); None raises
\* RuntimeError("Failed to build graph")
BuildGraph ==
    /\ pc = "build_graph"
    /\ UNCHANGED <<answers, epoch, injections, loop_task, task_pc, writer>>
    /\ stages' = Append(stages, "build_graph")
    /\ BuildGraphCall(logon, device, http, selected_day)
    /\ IF NoEdges(logon, device, http, selected_day)
       THEN /\ result' = ErrorResult("Failed to build graph")
            /\ pc' = "done"
       ELSE /\ result' = result
            /\ pc' = "train_model"
    /\ UNCHANGED <<raw_scores, top_k, last_call, raised>>
    /\ UNCHANGED <<malicious_users, malicious_days, model, logon, device, http,
                   all_days, selected_day, training_losses, suspicious_users>>

-----------------------------------------------------------------------------
(* train_model *)

Epochs == 25
FallbackK == 3

Min2(a, b) == IF a < b THEN a ELSE b

\* torch.where(self.data.train_mask)[0]
UserIndices(d) == {i \in DOMAIN d.train_mask : d.train_mask[i]}

\* the test of the fallback taken as met in every epoch
NoPositiveAlways(d) == TRUE

\* (self.data.y[self.data.train_mask] == 1).sum() == 0
NoPositive(d) == \A i \in UserIndices(d) : d.y[i] # 1

\* k of the indices, whatever their degrees
TopKSetsAny(idx, x, k) == {T \in SUBSET idx : Cardinality(T) = k}

\* the index sets torch.topk(degrees, k) can return: k of the indices, none
\* of a smaller degree than one left out (the order among equal degrees is
\* not fixed)
TopKSets(idx, x, k) ==
    {T \in SUBSET idx : /\ Cardinality(T) = k
                        /\ \A t \in T, o \in idx \ T : x[t] >= x[o]}

\* self.data.y after the first epoch; the later epochs find a positive
\* sample, or no user index, and change nothing
FallbackLabels(d, T) == [i \in DOMAIN d.y |-> IF i \in T THEN 1 ELSE d.y[i]]

FallbackChoices(d) ==
    IF NoPositive(d) /\ UserIndices(d) # {}
    THEN TopKSets(UserIndices(d), d.x, Min2(FallbackK, Cardinality(UserIndices(d))))
    ELSE {{}}

\* train_model: "if self.data is None: raise ValueError(...)"
TrainError == IF data = NoData THEN "Graph data not available. Build graph first."
              ELSE ""

\* train_model(epochs=25) past its check: the model is created, the first
\* epoch applies the fallback, every epoch appends one loss
TrainEffect ==
    /\ model' = "GNN"
    /\ \E T \in FallbackChoices(data) :
          data' = [data EXCEPT !.y = FallbackLabels(data, T)]
    /\ training_losses' = Epochs

\* run_analysis: training_losses = await self.train_model(epochs=25)
TrainModel ==
    /\ pc = "train_model"
    /\ UNCHANGED <<answers, epoch, injections, loop_task, task_pc, writer>>
    /\ stages' = Append(stages, "train_model")
    /\ IF TrainError # ""
       THEN /\ result' = ErrorResult(TrainError)
            /\ pc' = "done"
            /\ UNCHANGED <<data, model, training_losses>>
       ELSE /\ TrainEffect
            /\ result' = result
            /\ pc' = "get_predictions"
    /\ UNCHANGED <<raw_scores, top_k, last_call, raised>>
    /\ UNCHANGED <<malicious_users, malicious_days, node_id, node_type, node_key,
                   logon, device, http, all_days, selected_day, suspicious_users>>

-----------------------------------------------------------------------------
(* train_model epoch by epoch: epoch counts the iterations of the loop     *)
(* that have run, injections the iterations whose fallback wrote labels.   *)

\* train_model up to the loop: the check, create_gnn_model, the optimizer
TrainBegin ==
    /\ pc = "train_model"
    /\ stages' = Append(stages, "train_model")
    /\ epoch' = 0
    /\ injections' = 0
    /\ IF TrainError # ""
       THEN /\ result' = ErrorResult(TrainError)
            /\ pc' = "done"
            /\ model' = model
       ELSE /\ result' = result
            /\ pc' = "train_epoch"
            /\ model' = "GNN"
    /\ UNCHANGED <<answers, loop_task, task_pc, writer>>
    /\ UNCHANGED <<raw_scores, top_k, last_call, raised>>
    /\ UNCHANGED <<malicious_users, malicious_days, node_id, node_type, node_key,
                   data, logon, device, http, all_days, selected_day,
                   training_losses, suspicious_users>>

\* one iteration of "for epoch in range(1, epochs + 1)": with no positive
\* sample and a user index the labels of the top degrees are set to 1
TrainEpoch ==
    /\ pc = "train_epoch"
    /\ epoch < Epochs
    /\ epoch' = epoch + 1
    /\ IF NoPositive(data) /\ UserIndices(data) # {}
       THEN /\ \E T \in TopKSets(UserIndices(data), data.x,
                                 Min2(FallbackK, Cardinality(UserIndices(data)))) :
                  data' = [data EXCEPT !.y = FallbackLabels(data, T)]
            /\ injections' = injections + 1
       ELSE UNCHANGED <<data, injections>>
    /\ UNCHANGED <<answers, loop_task, task_pc, writer>>
    /\ UNCHANGED <<raw_scores, top_k, last_call, raised>>
    /\ UNCHANGED <<malicious_users, malicious_days, node_id, node_type, node_key,
                   model, logon, device, http, all_days, selected_day,
                   training_losses, suspicious_users, pc, stages, result>>

\* the loop is over: return training_losses, one loss per epoch
TrainReturn ==
    /\ pc = "train_epoch"
    /\ epoch = Epochs
    /\ training_losses' = epoch
    /\ pc' = "get_predictions"
    /\ UNCHANGED <<answers, epoch, injections, loop_task, task_pc, writer>>
    /\ UNCHANGED <<raw_scores, top_k, last_call, raised>>
    /\ UNCHANGED <<malicious_users, malicious_days, node_id, node_type, node_key,
                   data, model, logon, device, http, all_days, selected_day,
                   suspicious_users, stages, result>>

-----------------------------------------------------------------------------
(* get_predictions; scores are in tenths *)

Boost == 8
MaxScore == 10
TopK == 100

ScoreLevels == {1, 10}

MinLevel == CHOOSE m \in ScoreLevels : \A o \in ScoreLevels : m <= o

\* the "for name, idx in self.node_id.items(): if idx == i" lookup: the name
\* of index i, or "" for None
NameOf(ids, i) ==
    IF \E name \in DOMAIN ids : ids[name] = i
    THEN CHOOSE name \in DOMAIN ids : ids[name] = i
    ELSE ""

\* the boost without the clamp
BoostedUnclamped(score) == score + Boost

\* torch.clamp(scores[i] + 0.8, 0.0, 1.0)
Boosted(score) == IF score + Boost > MaxScore THEN MaxScore ELSE score + Boost

\* the boosting loop going by the label vector instead of malicious_users
BoostScoresByLabel(scores, ids, types, musers) ==
    [i \in DOMAIN scores |->
        IF types[i] = "user" /\ NameOf(ids, i) # "" /\ data.y[i] = 1
        THEN Boosted(scores[i])
        ELSE scores[i]]

\* scores after the boosting loop
BoostScores(scores, ids, types, musers) ==
    [i \in DOMAIN scores |->
        IF types[i] = "user" /\ NameOf(ids, i) # "" /\ NameOf(ids, i) \in musers
        THEN Boosted(scores[i])
        ELSE scores[i]]

\* top_users before the sort: the user nodes that have a name, by index
RECURSIVE TopUsers(_, _, _, _, _, _)
TopUsers(i, n, scores, ids, types, musers) ==
    IF i >= n THEN <<>>
    ELSE (IF types[i] = "user" /\ NameOf(ids, i) # ""
          THEN <<[user |-> NameOf(ids, i), score |-> scores[i],
                  is_known_malicious |-> NameOf(ids, i) \in musers]>>
          ELSE <<>>) \o TopUsers(i + 1, n, scores, ids, types, musers)

\* one step of an ascending sort
InsertByScoreAscending(lst, e) ==
    LET k == Cardinality({j \in 1..Len(lst) : lst[j].score <= e.score})
    IN SubSeq(lst, 1, k) \o <<e>> \o SubSeq(lst, k + 1, Len(lst))

\* one step of the stable descending sort: e goes behind the entries whose
\* score is not smaller
InsertByScore(lst, e) ==
    LET k == Cardinality({j \in 1..Len(lst) : lst[j].score >= e.score})
    IN SubSeq(lst, 1, k) \o <<e>> \o SubSeq(lst, k + 1, Len(lst))

\* top_users.sort(key=lambda x: x["score"], reverse=True)
RECURSIVE SortByScore(_, _, _)
SortByScore(lst, i, acc) ==
    IF i > Len(lst) THEN acc
    ELSE SortByScore(lst, i + 1, InsertByScore(acc, lst[i]))

\* get_predictions(top_k=k) with the model's sigmoid outputs scores
Predictions(scores, d, ids, types, musers, k) ==
    LET boosted == BoostScores(scores, ids, types, musers)
        sorted == SortByScore(TopUsers(0, d.num_nodes, boosted, ids, types, musers),
                              1, <<>>)
    IN SubSeq(sorted, 1, Min2(k, Len(sorted)))

\* the outputs torch.sigmoid(self.model(...)) can have; the entries of the
\* pc and domain nodes are never read and are held at the lowest level
ScoreVectors(d, types) ==
    {sc \in [DOMAIN d.x -> ScoreLevels] :
        \A i \in DOMAIN sc :
            (i \in DOMAIN types /\ types[i] # "user") => sc[i] = MinLevel}

\* the check of get_predictions looking at self.data only
PredictErrorDataOnly ==
    IF data = NoData
    THEN "Model not trained or data not available"
    ELSE IF \E i \in 0..(data.num_nodes - 1) : i \notin DOMAIN node_type
         THEN "KeyError"
         ELSE ""

\* get_predictions: the ValueError of its check, or the KeyError of
\* self.node_type[i] for a node of self.data that node_type does not hold
PredictError ==
    IF model = "None" \/ data = NoData
    THEN "Model not trained or data not available"
    ELSE IF \E i \in 0..(data.num_nodes - 1) : i \notin DOMAIN node_type
         THEN "KeyError"
         ELSE ""

\* get_predictions(k) past its check
PredictEffect(k) ==
    \E sc \in ScoreVectors(data, node_type) :
        /\ raw_scores' = sc
        /\ top_k' = k
        /\ suspicious_users' =
               Predictions(sc, data, node_id, node_type, malicious_users, k)

\* run_analysis: suspicious_users = await self.get_predictions(top_k=100)
GetPredictions ==
    /\ pc = "get_predictions"
    /\ UNCHANGED <<answers, epoch, injections, loop_task, task_pc, writer>>
    /\ stages' = Append(stages, "get_predictions")
    /\ IF PredictError # ""
       THEN /\ result' = ErrorResult(PredictError)
            /\ pc' = "done"
            /\ UNCHANGED <<suspicious_users, raw_scores, top_k>>
       ELSE /\ PredictEffect(TopK)
            /\ result' = result
            /\ pc' = "get_graph_data_for_visualization"
    /\ UNCHANGED <<last_call, raised>>
    /\ UNCHANGED <<malicious_users, malicious_days, node_id, node_type, node_key,
                   data, model, logon, device, http, all_days, selected_day,
                   training_losses>>

-----------------------------------------------------------------------------
(* get_graph_data_for_visualization and the result of run_analysis *)

\* nodes: one entry per key of self.node_id
VizNodes(d, ids, types, musers) ==
    {[id |-> name, type |-> types[ids[name]], is_malicious |-> name \in musers,
      degree |-> d.x[ids[name]]] : name \in DOMAIN ids}

\* the names the lookup loop leaves for an edge: "if idx == src_idx ... elif
\* idx == tgt_idx", so the target is not found when it is the source
VizSource(ids, e) == NameOf(ids, e[1])

VizTarget(ids, e) == IF e[1] = e[2] THEN "" ELSE NameOf(ids, e[2])

RECURSIVE VizEdges(_, _, _)
VizEdges(edges, ids, i) ==
    IF i > Len(edges) THEN <<>>
    ELSE (IF VizSource(ids, edges[i]) # "" /\ VizTarget(ids, edges[i]) # ""
          THEN <<[source |-> VizSource(ids, edges[i]),
                  target |-> VizTarget(ids, edges[i]), weight |-> 1]>>
          ELSE <<>>) \o VizEdges(edges, ids, i + 1)

GraphViz(d, ids, types, musers) ==
    LET nodes == VizNodes(d, ids, types, musers)
        edges == VizEdges(d.edge_index, ids, 1)
    IN [nodes |-> nodes, edges |-> edges,
        stats |-> [total_nodes |-> Cardinality(nodes),
                   total_edges |-> Len(edges),
                   malicious_users |->
                       Cardinality({n \in nodes : n.is_malicious /\ n.type = "user"})]]

\* the dict run_analysis returns when every stage has passed
SuccessResult(viz) ==
    [status |-> "success", error |-> "", analysis_date |-> selected_day,
     suspicious_users |-> suspicious_users, graph_data |-> viz,
     training_losses |-> training_losses,
     summary |-> <<data.num_nodes, Len(data.edge_index),
                   Cardinality(UserIndices(data)), Cardinality(malicious_users),
                   SetMin(all_days), SetMax(all_days), Cardinality(all_days)>>]

\* run_analysis: graph_viz_data = await self.get_graph_data_for_visualization()
\* and the return
ExportAndReturn ==
    /\ pc = "get_graph_data_for_visualization"
    /\ UNCHANGED <<answers, epoch, injections, loop_task, task_pc, writer>>
    /\ stages' = Append(stages, "get_graph_data_for_visualization")
    /\ result' = SuccessResult(IF data = NoData THEN NoViz
                               ELSE GraphViz(data, node_id, node_type, malicious_users))
    /\ pc' = "done"
    /\ UNCHANGED <<raw_scores, top_k, last_call, raised>>
    /\ UNCHANGED <<malicious_users, malicious_days, node_id, node_type, node_key,
                   data, model, logon, device, http, all_days, selected_day,
                   training_losses, suspicious_users>>

-----------------------------------------------------------------------------
(* One run of run_analysis on a fresh instance *)

Init ==
    /\ malicious_users = {}
    /\ malicious_days = {}
    /\ node_id = EmptyFn
    /\ node_type = EmptyFn
    /\ node_key = EmptyFn
    /\ data = NoData
    /\ model = "None"
    /\ logon = <<>>
    /\ device = <<>>
    /\ http = <<>>
    /\ all_days = {}
    /\ selected_day = NoDay
    /\ training_losses = 0
    /\ suspicious_users = <<>>
    /\ pc = "load_malicious_data"
    /\ stages = <<>>
    /\ result = NoResult
    /\ raw_scores = EmptyFn
    /\ top_k = 0
    /\ last_call = "none"
    /\ raised = ""
    /\ answers \in [1..NumAnswerFiles -> AnswerFiles(MaxRunRecs, LogDays)]
    /\ epoch = 0
    /\ injections = 0
    /\ loop_task = 0
    /\ task_pc = EmptyFn
    /\ writer = EmptyFn

Next ==
    \/ LoadMaliciousData
    \/ LoadBackgroundLogs
    \/ SelectDay
    \/ BuildGraph
    \/ TrainModel
    \/ GetPredictions
    \/ ExportAndReturn

Spec == Init /\ [][Next]_vars

-----------------------------------------------------------------------------
(* Day selection on its own: the run stands before the selection, the logs *)
(* and the malicious days are any the two load stages can have left.       *)

DayRow(d) == [user |-> "a", pc |-> "a", day |-> d]

DayHttpRow(d) == [user |-> "a", domain |-> "a", day |-> d]

InitDay ==
    /\ malicious_users = {}
    /\ malicious_days \in SUBSET Days
    /\ node_id = EmptyFn
    /\ node_type = EmptyFn
    /\ node_key = EmptyFn
    /\ data = NoData
    /\ model = "None"
    /\ \E k \in Lengths(MaxDayRecs) :
          /\ logon \in [1..k[1] -> {DayRow(d) : d \in Days}]
          /\ device \in [1..k[2] -> {DayRow(d) : d \in Days}]
          /\ http \in [1..k[3] -> {DayHttpRow(d) : d \in Days}]
    /\ all_days = {}
    /\ selected_day = NoDay
    /\ training_losses = 0
    /\ suspicious_users = <<>>
    /\ pc = "select_day"
    /\ stages = <<"load_malicious_data", "load_background_logs">>
    /\ result = NoResult
    /\ raw_scores = EmptyFn
    /\ top_k = 0
    /\ last_call = "none"
    /\ raised = ""
    /\ answers = <<>>
    /\ epoch = 0
    /\ injections = 0
    /\ loop_task = 0
    /\ task_pc = EmptyFn
    /\ writer = EmptyFn

NextDay == SelectDay

SpecDay == InitDay /\ [][NextDay]_vars

\* the day selection followed by the build_graph stage
NextDayBuild ==
    \/ SelectDay
    \/ BuildGraph

SpecDayBuild == InitDay /\ [][NextDayBuild]_vars

-----------------------------------------------------------------------------
(* load_malicious_data on its own, on a fresh instance, over answer files  *)
(* of several rows.                                                        *)

InitTruth ==
    /\ malicious_users = {}
    /\ malicious_days = {}
    /\ node_id = EmptyFn
    /\ node_type = EmptyFn
    /\ node_key = EmptyFn
    /\ data = NoData
    /\ model = "None"
    /\ logon = <<>>
    /\ device = <<>>
    /\ http = <<>>
    /\ all_days = {}
    /\ selected_day = NoDay
    /\ training_losses = 0
    /\ suspicious_users = <<>>
    /\ pc = "load_malicious_data"
    /\ stages = <<>>
    /\ result = NoResult
    /\ raw_scores = EmptyFn
    /\ top_k = 0
    /\ last_call = "none"
    /\ raised = ""
    /\ answers \in [1..NumAnswerFiles -> AnswerFiles(MaxAnsRows, {1})]
    /\ epoch = 0
    /\ injections = 0
    /\ loop_task = 0
    /\ task_pc = EmptyFn
    /\ writer = EmptyFn

NextTruth == LoadMaliciousData

SpecTruth == InitTruth /\ [][NextTruth]_vars

-----------------------------------------------------------------------------
(* run_analysis from build_graph on: the run stands before build_graph,    *)
(* with any logs, any day and any malicious users.                         *)

InitGraph ==
    /\ malicious_users \in SUBSET Names
    /\ malicious_days = {}
    /\ node_id = EmptyFn
    /\ node_type = EmptyFn
    /\ node_key = EmptyFn
    /\ data = NoData
    /\ model = "None"
    /\ \E k \in Lengths(MaxRecs) :
          /\ logon \in [1..k[1] -> LogRows]
          /\ device \in [1..k[2] -> LogRows]
          /\ http \in [1..k[3] -> HttpRows]
    /\ all_days = AllDays(logon, device, http)
    /\ selected_day = 1
    /\ training_losses = 0
    /\ suspicious_users = <<>>
    /\ pc = "build_graph"
    /\ stages = <<"load_malicious_data", "load_background_logs", "select_day">>
    /\ result = NoResult
    /\ raw_scores = EmptyFn
    /\ top_k = 0
    /\ last_call = "none"
    /\ raised = ""
    /\ answers = <<>>
    /\ epoch = 0
    /\ injections = 0
    /\ loop_task = 0
    /\ task_pc = EmptyFn
    /\ writer = EmptyFn

NextGraph ==
    \/ BuildGraph
    \/ TrainModel
    \/ GetPredictions
    \/ ExportAndReturn

SpecGraph == InitGraph /\ [][NextGraph]_vars

-----------------------------------------------------------------------------
(* build_graph and train_model of a run over logon rows of up to four      *)
(* users on one pc, so that the fallback has more than three users to      *)
(* choose from.                                                            *)

TrainUsers == {"a", "b", "c", "d"}

TrainRows == [user : TrainUsers, pc : {"p"}, day : {1}]

InitTrain ==
    /\ malicious_users \in {{}, {"a"}}
    /\ malicious_days = {}
    /\ node_id = EmptyFn
    /\ node_type = EmptyFn
    /\ node_key = EmptyFn
    /\ data = NoData
    /\ model = "None"
    /\ \E n \in 0..MaxTrainRecs : logon \in [1..n -> TrainRows]
    /\ device = <<>>
    /\ http = <<>>
    /\ all_days = AllDays(logon, device, http)
    /\ selected_day = 1
    /\ training_losses = 0
    /\ suspicious_users = <<>>
    /\ pc = "build_graph"
    /\ stages = <<"load_malicious_data", "load_background_logs", "select_day">>
    /\ result = NoResult
    /\ raw_scores = EmptyFn
    /\ top_k = 0
    /\ last_call = "none"
    /\ raised = ""
    /\ answers = <<>>
    /\ epoch = 0
    /\ injections = 0
    /\ loop_task = 0
    /\ task_pc = EmptyFn
    /\ writer = EmptyFn

NextTrain ==
    \/ BuildGraph
    \/ TrainModel

SpecTrain == InitTrain /\ [][NextTrain]_vars

\* the graphs of at most MaxEpochRecs records, trained epoch by epoch
InitEpochs == InitTrain /\ Len(logon) <= MaxEpochRecs

NextEpochs ==
    \/ BuildGraph
    \/ TrainBegin
    \/ TrainEpoch
    \/ TrainReturn

SpecEpochs == InitEpochs /\ [][NextEpochs]_vars

-----------------------------------------------------------------------------
(* The methods called on an instance from outside run_analysis.  The       *)
(* frames passed to build_graph are the ones the state holds; last_call    *)
(* and raised record the call and its exception.                           *)

\* await detector.build_graph(logon, device, http, day): returns the graph
\* or None, raises nothing
CallBuildGraph(day) ==
    /\ pc = "idle"
    /\ UNCHANGED <<answers, epoch, injections, loop_task, task_pc, writer>>
    /\ BuildGraphCall(logon, device, http, day)
    /\ selected_day' = day
    /\ last_call' = "build_graph"
    /\ raised' = ""
    /\ UNCHANGED <<malicious_users, malicious_days, model, logon, device, http,
                   all_days, training_losses, suspicious_users, pc, stages, result,
                   raw_scores, top_k>>

\* await detector.train_model(): training_losses is the list it returned
CallTrainModel ==
    /\ pc = "idle"
    /\ UNCHANGED <<answers, epoch, injections, loop_task, task_pc, writer>>
    /\ last_call' = "train_model"
    /\ raised' = TrainError
    /\ IF TrainError # ""
       THEN /\ training_losses' = 0
            /\ UNCHANGED <<data, model>>
       ELSE TrainEffect
    /\ UNCHANGED <<malicious_users, malicious_days, node_id, node_type, node_key,
                   logon, device, http, all_days, selected_day, suspicious_users,
                   pc, stages, result, raw_scores, top_k>>

\* await detector.get_predictions(top_k=k): suspicious_users is the list it
\* returned
CallGetPredictions ==
    /\ pc = "idle"
    /\ UNCHANGED <<answers, epoch, injections, loop_task, task_pc, writer>>
    /\ last_call' = "get_predictions"
    /\ raised' = PredictError
    /\ \E k \in 1..MaxTopK :
          IF PredictError # ""
          THEN /\ suspicious_users' = <<>>
               /\ raw_scores' = EmptyFn
               /\ top_k' = k
          ELSE PredictEffect(k)
    /\ UNCHANGED <<malicious_users, malicious_days, node_id, node_type, node_key,
                   data, model, logon, device, http, all_days, selected_day,
                   training_losses, pc, stages, result>>

\* a fresh instance whose malicious users are set, and frames of at most n
\* rows, drawn from rows and hrows, to call build_graph with
InitIdle(n, rows, hrows) ==
    /\ malicious_users \in SUBSET Names
    /\ malicious_days = {}
    /\ node_id = EmptyFn
    /\ node_type = EmptyFn
    /\ node_key = EmptyFn
    /\ data = NoData
    /\ model = "None"
    /\ \E k \in Lengths(n) :
          /\ logon \in [1..k[1] -> rows]
          /\ device \in [1..k[2] -> rows]
          /\ http \in [1..k[3] -> hrows]
    /\ all_days = {}
    /\ selected_day = NoDay
    /\ training_losses = 0
    /\ suspicious_users = <<>>
    /\ pc = "idle"
    /\ stages = <<>>
    /\ result = NoResult
    /\ raw_scores = EmptyFn
    /\ top_k = 0
    /\ last_call = "none"
    /\ raised = ""
    /\ answers = <<>>
    /\ epoch = 0
    /\ injections = 0
    /\ loop_task = 0
    /\ task_pc = EmptyFn
    /\ writer = EmptyFn

-----------------------------------------------------------------------------
(* get_predictions(top_k) for any top_k on an instance that build_graph    *)
(* and train_model have prepared, the three called once each in the order  *)
(* of run_analysis.                                                        *)

\* pc and domain names: one that is also a user's name, one that is not
RankPcs == {"a", "p"}

RankRows == [user : Names, pc : RankPcs, day : LogDays]

RankHttpRows == [user : Names, domain : RankPcs, day : LogDays]

InitRank == InitIdle(MaxRecs, RankRows, RankHttpRows)

RankBuild == last_call = "none" /\ CallBuildGraph(1)

RankTrain == last_call = "build_graph" /\ CallTrainModel

RankPredict == last_call = "train_model" /\ CallGetPredictions

NextRank ==
    \/ RankBuild
    \/ RankTrain
    \/ RankPredict

SpecRank == InitRank /\ [][NextRank]_vars

-----------------------------------------------------------------------------
(* The three methods called in any order, any number of times.             *)

\* the days of the rows and of the build_graph calls
CallDays == {1, 2}

CallRows == [user : Names, pc : Names, day : CallDays]

CallHttpRows == [user : Names, domain : Names, day : CallDays]

InitCalls == InitIdle(MaxRunRecs, CallRows, CallHttpRows)

NextCalls ==
    \/ \E day \in CallDays : CallBuildGraph(day)
    \/ CallTrainModel
    \/ CallGetPredictions

SpecCalls == InitCalls /\ [][NextCalls]_vars

-----------------------------------------------------------------------------
(* Overlapping /api/insider-threat/analyze requests on the one event loop  *)
(* of the server.  Each request is a task running analyze_insider_threat,  *)
(* which awaits run_analysis of the global detector.  A task keeps the     *)
(* loop until it awaits something that is not finished.  The data of the   *)
(* stages is left out: writer records which request wrote each instance    *)
(* field last, and a stage that can raise does or does not.                *)

Tasks == 1..MaxTasks

Fields == {"truth", "maps", "graph", "labels", "model"}

\* the stage after stage st of run_analysis
NextStage(st) ==
    CASE st = "load_malicious_data" -> "load_background_logs"
      [] st = "load_background_logs" -> "select_day"
      [] st = "select_day" -> "build_graph"
      [] st = "build_graph" -> "train_model"
      [] st = "train_model" -> "get_predictions"
      [] st = "get_predictions" -> "get_graph_data_for_visualization"
      [] OTHER -> "done"

\* the instance fields a stage assigns
Writes(st) ==
    CASE st = "load_malicious_data" -> {"truth"}
      [] st = "build_graph" -> {"maps", "graph", "labels"}
      [] st = "train_model" -> {"model", "labels"}
      [] OTHER -> {}

\* the stages whose raise ends the run: "if not selected_day" and
\* "if graph_data is None"
CanRaise(st) == st \in {"select_day", "build_graph"}

\* every await of a stage as a point where the task gives up the loop
SuspendsAlways(st) == TRUE

\* whether "await self.<stage>()" gives up the event loop: the stage
\* coroutines contain no await, so awaiting them runs them to their return
Suspends(st) == FALSE

\* a request arrives: its task is created and waits for the loop
Request(t) ==
    /\ task_pc[t] = "none"
    /\ task_pc' = [task_pc EXCEPT ![t] = "load_malicious_data"]
    /\ UNCHANGED <<loop_task, writer>>
    /\ UNCHANGED <<malicious_users, malicious_days, node_id, node_type, node_key,
                   data, model, logon, device, http, all_days, selected_day,
                   training_losses, suspicious_users, pc, stages, result,
                   raw_scores, top_k, last_call, raised, answers, epoch, injections>>

\* the idle loop runs a task that is waiting
Resume(t) ==
    /\ loop_task = 0
    /\ task_pc[t] \notin {"none", "done"}
    /\ loop_task' = t
    /\ UNCHANGED <<task_pc, writer>>
    /\ UNCHANGED <<malicious_users, malicious_days, node_id, node_type, node_key,
                   data, model, logon, device, http, all_days, selected_day,
                   training_losses, suspicious_users, pc, stages, result,
                   raw_scores, top_k, last_call, raised, answers, epoch, injections>>

\* the running task executes the stage it stands before; a build_graph that
\* raises has assigned the node maps already
TaskStage(t) ==
    /\ loop_task = t
    /\ task_pc[t] \notin {"none", "done"}
    /\ \E raises \in {r \in BOOLEAN : r => CanRaise(task_pc[t])} :
          LET st == task_pc[t]
              next == IF raises THEN "done" ELSE NextStage(st)
              written == IF raises
                         THEN (IF st = "build_graph" THEN {"maps"} ELSE {})
                         ELSE Writes(st)
          IN /\ task_pc' = [task_pc EXCEPT ![t] = next]
             /\ writer' = [f \in Fields |-> IF f \in written THEN t ELSE writer[f]]
             /\ loop_task' = IF next = "done" \/ Suspends(st) THEN 0 ELSE t
    /\ UNCHANGED <<malicious_users, malicious_days, node_id, node_type, node_key,
                   data, model, logon, device, http, all_days, selected_day,
                   training_losses, suspicious_users, pc, stages, result,
                   raw_scores, top_k, last_call, raised, answers, epoch, injections>>

InitLoop ==
    /\ malicious_users = {}
    /\ malicious_days = {}
    /\ node_id = EmptyFn
    /\ node_type = EmptyFn
    /\ node_key = EmptyFn
    /\ data = NoData
    /\ model = "None"
    /\ logon = <<>>
    /\ device = <<>>
    /\ http = <<>>
    /\ all_days = {}
    /\ selected_day = NoDay
    /\ training_losses = 0
    /\ suspicious_users = <<>>
    /\ pc = "idle"
    /\ stages = <<>>
    /\ result = NoResult
    /\ raw_scores = EmptyFn
    /\ top_k = 0
    /\ last_call = "none"
    /\ raised = ""
    /\ answers = <<>>
    /\ epoch = 0
    /\ injections = 0
    /\ loop_task = 0
    /\ task_pc = [t \in Tasks |-> "none"]
    /\ writer = [f \in Fields |-> 0]

NextLoop ==
    \/ \E t \in Tasks : Request(t)
    \/ \E t \in Tasks : Resume(t)
    \/ \E t \in Tasks : TaskStage(t)

SpecLoop == InitLoop /\ [][NextLoop]_vars

-----------------------------------------------------------------------------
(* Properties *)

\* the select_day stage of the run has been executed
Selected == \E i \in 1..Len(stages) : stages[i] = "select_day"

\* availableDays: the days of the rows of the three logs
AvailableDays ==
    {d \in Days \cup LogDays :
        \/ \E i \in 1..Len(logon) : logon[i].day = d
        \/ \E i \in 1..Len(device) : device[i].day = d
        \/ \E i \in 1..Len(http) : http[i].day = d}

\* C1: for every non-empty availableDays and every maliciousDays, the day
\* run_analysis selects is an element of availableDays.
C1_SelectedDayIsAvailable ==
    (Selected /\ AvailableDays # {}) => selected_day \in AvailableDays

\* three days are available, some day is malicious, and a day was selected
C1_Witness ==
    /\ Selected
    /\ Cardinality(AvailableDays) >= 3
    /\ malicious_days # {}
    /\ pc = "build_graph"
    /\ selected_day \in AvailableDays

\* C2: whenever availableDays and maliciousDays have a day in common, the
\* selected day is the earliest day of their intersection.
C2_EarliestCommonDay ==
    (Selected /\ AvailableDays \cap malicious_days # {}) =>
        /\ selected_day \in AvailableDays \cap malicious_days
        /\ \A d \in AvailableDays \cap malicious_days : selected_day <= d

\* two days are in common, and an earlier available day is not malicious
C2_Witness ==
    /\ Selected
    /\ Cardinality(AvailableDays \cap malicious_days) >= 2
    /\ \E d \in AvailableDays : d < selected_day
    /\ selected_day \in malicious_days

\* the earliest malicious day, min(maliciousDays)
FirstMaliciousDay == CHOOSE m \in malicious_days : \A d \in malicious_days : m <= d

\* C3: when maliciousDays is non-empty and disjoint from availableDays, the
\* selected day is an available day at minimal absolute distance from
\* min(maliciousDays), and the earlier one of two equally close days.
C3_ClosestDayEarliestOnTie ==
    (Selected /\ AvailableDays # {} /\ malicious_days # {}
        /\ AvailableDays \cap malicious_days = {}) =>
        /\ selected_day \in AvailableDays
        /\ \A d \in AvailableDays :
              Abs(selected_day - FirstMaliciousDay) <= Abs(d - FirstMaliciousDay)
        /\ \A d \in AvailableDays :
              Abs(d - FirstMaliciousDay) = Abs(selected_day - FirstMaliciousDay)
                  => selected_day <= d

\* no day is in common and two available days are equally close to the
\* first malicious day
C3_Witness ==
    /\ Selected
    /\ malicious_days # {}
    /\ AvailableDays \cap malicious_days = {}
    /\ \E d \in AvailableDays :
          /\ d # selected_day
          /\ Abs(d - FirstMaliciousDay) = Abs(selected_day - FirstMaliciousDay)
    /\ selected_day \in AvailableDays

\* C4: when maliciousDays is empty and availableDays is not, the selected
\* day is the latest available day.
C4_LatestDayWithoutMaliciousDays ==
    (Selected /\ AvailableDays # {} /\ malicious_days = {}) =>
        /\ selected_day \in AvailableDays
        /\ \A d \in AvailableDays : d <= selected_day

\* no malicious day, several available days
C4_Witness ==
    /\ Selected
    /\ malicious_days = {}
    /\ Cardinality(AvailableDays) >= 2
    /\ selected_day \in AvailableDays

\* the logs of the run have been loaded
LogsLoaded == \E i \in 1..Len(stages) : stages[i] = "load_background_logs"

StageStarted(name) == \E i \in 1..Len(stages) : stages[i] = name

\* C5: when the three logs hold no row, run_analysis ends with status
\* "error", and graph construction, training and prediction are not
\* executed in that run.
C5_NoDaysIsFatal ==
    (LogsLoaded /\ AvailableDays = {}) =>
        /\ ~StageStarted("build_graph")
        /\ ~StageStarted("train_model")
        /\ ~StageStarted("get_predictions")
        /\ ~StageStarted("get_graph_data_for_visualization")
        /\ data = NoData /\ model = "None"
        /\ Selected => (pc = "done" /\ result.status = "error")
        /\ result.status # "success"

\* a run over empty logs has ended
C5_Witness ==
    /\ LogsLoaded
    /\ AvailableDays = {}
    /\ pc = "done"
    /\ result.status = "error"
    /\ malicious_days # {}

\* build_graph has returned the graph and no later stage has run
Built == pc = "train_model"

\* C6: after build_graph, label[i] = 1 iff node i is a user node whose key
\* is in maliciousUsers; every pc and domain node has label 0.
C6_LabelsIffMaliciousUser ==
    Built => \A i \in 0..(data.num_nodes - 1) :
                 (data.y[i] = 1) <=>
                     (node_type[i] = "user" /\ node_key[i] \in malicious_users)

\* C7: after build_graph, trainMask[i] is true iff node i has type user.
C7_TrainMaskIffUser ==
    Built => \A i \in 0..(data.num_nodes - 1) :
                 data.train_mask[i] <=> (node_type[i] = "user")

\* the rows of the selected day
DayRows(rows) == {i \in 1..Len(rows) : rows[i].day = selected_day}

DayUsers ==
    {logon[i].user : i \in DayRows(logon)} \cup {device[i].user : i \in DayRows(device)}
        \cup {http[i].user : i \in DayRows(http)}

DayPcs == {logon[i].pc : i \in DayRows(logon)} \cup {device[i].pc : i \in DayRows(device)}

DayDomains == {http[i].domain : i \in DayRows(http)}

\* C8: the node indices are 0..N-1 with N = distinct users + distinct pcs +
\* distinct domains of the selected day, the users first, then the pcs,
\* then the domains.
C8_DenseIndicesByTypeGroup ==
    Built =>
        LET nu == Cardinality(DayUsers)
            np == Cardinality(DayPcs)
            nd == Cardinality(DayDomains)
            n == nu + np + nd
        IN /\ data.num_nodes = n
           /\ DOMAIN data.x = 0..(n - 1)
           /\ DOMAIN data.y = 0..(n - 1)
           /\ DOMAIN node_type = 0..(n - 1)
           /\ \A i \in 0..(n - 1) :
                 node_type[i] = IF i < nu THEN "user"
                                ELSE IF i < nu + np THEN "pc" ELSE "domain"
           /\ {node_key[i] : i \in 0..(nu - 1)} = DayUsers
           /\ {node_key[i] : i \in nu..(nu + np - 1)} = DayPcs
           /\ {node_key[i] : i \in (nu + np)..(n - 1)} = DayDomains

\* a graph with two users and a pc that bears the name of one of them
C8_Witness ==
    /\ Built
    /\ Cardinality(DayUsers) = 2
    /\ DayUsers \cap DayPcs # {}
    /\ data.num_nodes >= 3

\* the rows of the selected day whose two entities have a node index
Resolved ==
    Cardinality({i \in DayRows(logon) :
                    logon[i].user \in DOMAIN node_id /\ logon[i].pc \in DOMAIN node_id})
    + Cardinality({i \in DayRows(device) :
                    device[i].user \in DOMAIN node_id /\ device[i].pc \in DOMAIN node_id})
    + Cardinality({i \in DayRows(http) :
                    http[i].user \in DOMAIN node_id /\ http[i].domain \in DOMAIN node_id})

\* C9: the edge count is the number of rows of the selected day whose two
\* entities have a node index; rows with the same pair are not merged.
C9_OneEdgePerRow == Built => Len(data.edge_index) = Resolved

\* two logon rows of the selected day with the same user and pc
C9_Witness ==
    /\ Built
    /\ \E i, j \in DayRows(logon) :
          i # j /\ logon[i].user = logon[j].user /\ logon[i].pc = logon[j].pc
    /\ Len(data.edge_index) = 2

RECURSIVE SumTo(_, _)
SumTo(f, n) == IF n < 0 THEN 0 ELSE f[n] + SumTo(f, n - 1)

\* C10: every node's degree is the number of edge endpoints referencing it
\* (source and target both count), so the degrees sum to twice the edges.
C10_DegreeCountsEndpoints ==
    Built =>
        /\ \A i \in 0..(data.num_nodes - 1) :
              data.x[i] =
                  Cardinality({k \in 1..Len(data.edge_index) : data.edge_index[k][1] = i})
                  + Cardinality({k \in 1..Len(data.edge_index) : data.edge_index[k][2] = i})
        /\ SumTo(data.x, data.num_nodes - 1) = 2 * Len(data.edge_index)

\* a graph with an edge from a node to itself and another edge
C10_Witness ==
    /\ Built
    /\ Len(data.edge_index) >= 2
    /\ \E k \in 1..Len(data.edge_index) : data.edge_index[k][1] = data.edge_index[k][2]
    /\ \E k \in 1..Len(data.edge_index) : data.edge_index[k][1] # data.edge_index[k][2]

-----------------------------------------------------------------------------
\* no row of the three logs is of the selected day, so no edge results
NoEdgeDay == DayRows(logon) = {} /\ DayRows(device) = {} /\ DayRows(http) = {}

\* C11: when the selected day yields no edge, build_graph leaves no graph
\* and the run ends with status "error" without starting training or
\* prediction; such a day is never reported as a success.
C11_NoEdgesIsFatal ==
    NoEdgeDay =>
        /\ result.status # "success"
        /\ ~StageStarted("train_model")
        /\ ~StageStarted("get_predictions")
        /\ data = NoData /\ model = "None"
        /\ training_losses = 0 /\ suspicious_users = <<>>
        /\ StageStarted("build_graph") => (pc = "done" /\ result.status = "error")

\* a run has ended on a day without rows although the logs hold rows
C11_Witness ==
    /\ NoEdgeDay /\ pc = "done" /\ result.status = "error"
    /\ Len(logon) + Len(device) + Len(http) > 0

-----------------------------------------------------------------------------
\* the nodes whose trainMask is true
TrainNodes(d) == {i \in DOMAIN d.train_mask : d.train_mask[i]}

\* the trainMask-true nodes labelled 1
Positives(d) == {i \in TrainNodes(d) : d.y[i] = 1}

\* C12: when training starts with no trainMask-true node labelled 1, then
\* after training exactly min(3, |trainNodes|) trainMask-true nodes are
\* labelled 1, and each of them has a degree at least that of every
\* trainMask-true node that was not selected.
C12_FallbackLabelsTopDegree ==
    [][(pc = "train_model" /\ pc' = "get_predictions" /\ Positives(data) = {}) =>
          /\ TrainNodes(data') = TrainNodes(data)
          /\ Cardinality(Positives(data')) =
                 (IF Cardinality(TrainNodes(data)) < 3
                  THEN Cardinality(TrainNodes(data)) ELSE 3)
          /\ \A s \in Positives(data'), o \in TrainNodes(data') \ Positives(data') :
                 data'.x[s] >= data'.x[o]]_vars

\* training has labelled three of four users none of whom is known
\* malicious, and a user left out has the degree of one that was taken
C12_Witness ==
    /\ pc = "get_predictions"
    /\ malicious_users \cap DOMAIN node_id = {}
    /\ Cardinality(TrainNodes(data)) = 4
    /\ Cardinality(Positives(data)) = 3
    /\ \E s \in Positives(data), o \in TrainNodes(data) \ Positives(data) :
           data.x[s] = data.x[o]

-----------------------------------------------------------------------------
\* the last call was get_predictions and it returned a list
Ranked == last_call = "get_predictions" /\ raised = ""

\* the score the model gave the user of a ranked entry, before any boost
PreBoost(e) == raw_scores[node_id[e.user]]

\* C13: the score reported for a known-malicious user is its pre-boost
\* score plus 0.8 clamped to [0, 1], so at least the pre-boost score and at
\* most 1.0; no reported score is below its pre-boost score or outside
\* [0, 1].  (Scores are in tenths.)
C13_BoostWithinUnitInterval ==
    Ranked =>
        \A j \in 1..Len(suspicious_users) :
            LET e == suspicious_users[j] IN
            /\ 0 <= e.score /\ e.score <= 10
            /\ e.score >= PreBoost(e)
            /\ e.user \in malicious_users =>
                   e.score = (IF PreBoost(e) + 8 > 10 THEN 10 ELSE PreBoost(e) + 8)

\* a known-malicious user whose boost was clamped and one whose was not
C13_Witness ==
    /\ Ranked
    /\ \E j, k \in 1..Len(suspicious_users) :
           /\ suspicious_users[j].user \in malicious_users
           /\ PreBoost(suspicious_users[j]) = 10 /\ suspicious_users[j].score = 10
           /\ suspicious_users[k].user \in malicious_users
           /\ PreBoost(suspicious_users[k]) = 1 /\ suspicious_users[k].score = 9

\* C14: the returned list is ordered by non-increasing score: no entry has
\* a score below that of the entry after it.
C14_RankingNonIncreasing ==
    Ranked =>
        \A j \in 1..(Len(suspicious_users) - 1) :
            suspicious_users[j].score >= suspicious_users[j + 1].score

\* the sort has put a user of a higher index and a higher score first
C14_Witness ==
    /\ Ranked
    /\ Len(suspicious_users) = 2
    /\ suspicious_users[1].score > suspicious_users[2].score
    /\ node_id[suspicious_users[1].user] > node_id[suspicious_users[2].user]

-----------------------------------------------------------------------------
\* the user-type nodes of the graph
UserNodes == {i \in DOMAIN node_type : node_type[i] = "user"}

\* the score of user node i after boosting: its pre-boost score, raised by
\* 0.8 and clamped when its user is known malicious
FinalScore(i) ==
    IF node_key[i] \in malicious_users
    THEN (IF raw_scores[i] + 8 > 10 THEN 10 ELSE raw_scores[i] + 8)
    ELSE raw_scores[i]

\* the user nodes the returned list has an entry for
RankedNodes ==
    {i \in UserNodes : \E j \in 1..Len(suspicious_users) :
                           suspicious_users[j].user = node_key[i]}

\* C15: the returned list holds only user-type nodes, each at most once,
\* and exactly min(top_k, number of user-type nodes) entries, which are the
\* highest-scored user nodes after boosting.
C15_TopUsersOfAllUserNodes ==
    Ranked =>
        /\ \A j \in 1..Len(suspicious_users) :
               \E i \in UserNodes : node_key[i] = suspicious_users[j].user
        /\ \A j, k \in 1..Len(suspicious_users) :
               suspicious_users[j].user = suspicious_users[k].user => j = k
        /\ Len(suspicious_users) =
               (IF top_k < Cardinality(UserNodes) THEN top_k ELSE Cardinality(UserNodes))
        /\ \A i \in RankedNodes, o \in UserNodes \ RankedNodes :
               FinalScore(i) >= FinalScore(o)

\* C16: every user in malicious_users that is a user node of the graph has
\* an entry in the returned list, whatever the scores and whatever top_k.
C16_KnownMaliciousAlwaysRanked ==
    Ranked =>
        \A i \in UserNodes :
            node_key[i] \in malicious_users =>
                \E j \in 1..Len(suspicious_users) :
                    suspicious_users[j].user = node_key[i]

-----------------------------------------------------------------------------
\* C17: get_predictions called while the instance has no model raises and
\* returns no ranking, leaving the instance as it was; train_model called
\* while the instance has no graph raises without creating a model or
\* running an epoch.
C17_StagePreconditions ==
    [][/\ (last_call' = "get_predictions" /\ model = "None") =>
             /\ raised' # ""
             /\ suspicious_users' = <<>>
             /\ UNCHANGED <<data, model, node_id, node_type>>
       /\ (last_call' = "train_model" /\ data = NoData) =>
             /\ raised' # ""
             /\ model' = "None"
             /\ training_losses' = 0
             /\ data' = NoData]_vars

\* get_predictions has raised on an instance that has a graph and no model
C17_Witness ==
    /\ last_call = "get_predictions" /\ raised # ""
    /\ data # NoData /\ model = "None"
    /\ suspicious_users = <<>>

-----------------------------------------------------------------------------
\* the run has returned a success
Succeeded == pc = "done" /\ result.status = "success"

\* C18: the export's stats.total_nodes is the node count of the graph and
\* stats.total_edges its edge count, self-loop edges and nodes whose key is
\* also the key of a node of another type included.
C18_ExportCountsMatchGraph ==
    Succeeded =>
        /\ result.graph_data.stats.total_nodes = data.num_nodes
        /\ result.graph_data.stats.total_edges = Len(data.edge_index)

\* C19: is_malicious of an exported node and is_known_malicious of a
\* ranked user are true exactly when the key is in malicious_users,
\* whatever the score and the label; a user outside malicious_users keeps
\* its pre-boost score, also when the fallback has labelled it 1.
C19_FlagsReflectGroundTruth ==
    Succeeded =>
        /\ \A n \in result.graph_data.nodes :
               n.is_malicious <=> n.id \in malicious_users
        /\ \A j \in 1..Len(result.suspicious_users) :
               LET e == result.suspicious_users[j] IN
               /\ e.is_known_malicious <=> e.user \in malicious_users
               /\ e.user \notin malicious_users => e.score = PreBoost(e)

\* a user the fallback has labelled 1 is ranked with a low score, not
\* flagged, and exported as not malicious
C19_Witness ==
    /\ Succeeded
    /\ \E j \in 1..Len(result.suspicious_users) :
           LET e == result.suspicious_users[j] IN
           /\ e.user \notin malicious_users
           /\ data.train_mask[node_id[e.user]] /\ data.y[node_id[e.user]] = 1
           /\ ~e.is_known_malicious /\ e.score = 1
           /\ \E n \in result.graph_data.nodes : n.id = e.user /\ ~n.is_malicious

\* C20: a result run_analysis returns is either a success holding the
\* analysis date, ranked users, the graph export, one loss per epoch and
\* the summary, or an error holding a message and no ranked users, no
\* graph export and no losses.
C20_NoPartialSuccess ==
    pc = "done" =>
        \/ /\ result.status = "success"
           /\ result.analysis_date # NoDay
           /\ result.suspicious_users # <<>>
           /\ result.graph_data # NoViz
           /\ result.training_losses = 25
           /\ result.summary # <<>>
        \/ /\ result.status = "error"
           /\ result.error # ""
           /\ result.analysis_date = NoDay
           /\ result.suspicious_users = <<>>
           /\ result.graph_data = NoViz
           /\ result.training_losses = 0
           /\ result.summary = <<>>

-----------------------------------------------------------------------------
\* C21: once load_malicious_data has completed, no later step of the run
\* (log loading with its mock-data fallback, day selection, build_graph,
\* training, prediction, export) changes malicious_users or malicious_days.
C21_GroundTruthReadOnly ==
    [][StageStarted("load_malicious_data") =>
          UNCHANGED <<malicious_users, malicious_days>>]_vars

-----------------------------------------------------------------------------
\* the seven stages of run_analysis, in order
StageOrder ==
    <<"load_malicious_data", "load_background_logs", "select_day", "build_graph",
      "train_model", "get_predictions", "get_graph_data_for_visualization">>

\* C22: when no answer file exists, load_malicious_data raises nothing and
\* leaves malicious_users and malicious_days empty; and a run that ends
\* with empty ground truth over non-empty logs has gone through every
\* stage and returns status "success".
C22_EmptyGroundTruthTolerated ==
    [][/\ (pc = "load_malicious_data"
           /\ \A i \in 1..Len(answers) : answers[i].kind = "missing") =>
             /\ malicious_users' = {} /\ malicious_days' = {}
             /\ pc' = "load_background_logs" /\ result'.status = "none"
       /\ (pc' = "done" /\ malicious_users' = {} /\ malicious_days' = {}
           /\ Len(logon') + Len(device') + Len(http') > 0) =>
             /\ result'.status = "success"
             /\ stages' = StageOrder]_vars

\* a run without ground truth over non-empty logs has succeeded
C22_Witness ==
    /\ Succeeded /\ stages = StageOrder
    /\ malicious_users = {} /\ malicious_days = {}
    /\ Len(logon) + Len(device) + Len(http) > 0

\* the rows load_malicious_data gets to: those of the frames before the
\* first file that cannot be read
RowsRead ==
    UNION {{answers[i].rows[j] : j \in 1..Len(answers[i].rows)} :
              i \in {k \in 1..Len(answers) :
                        /\ answers[k].kind = "rows"
                        /\ \A h \in 1..k : answers[h].kind # "unreadable"}}

\* C23: a row whose date cannot be parsed contributes neither its user nor
\* a day, and every well-formed row of the same source is accumulated:
\* load_malicious_data adds exactly the users and the days of the rows
\* whose date parses.
C23_BadRowsSkipped ==
    [][(pc = "load_malicious_data" /\ pc' = "load_background_logs") =>
          /\ malicious_users' =
                 malicious_users \cup {r.user : r \in {w \in RowsRead : w.day # NoDay}}
          /\ malicious_days' =
                 malicious_days \cup {r.day : r \in {w \in RowsRead : w.day # NoDay}}]_vars

-----------------------------------------------------------------------------
\* request t has begun its run and not finished it
Running(t) == task_pc[t] \notin {"none", "load_malicious_data", "done"}

\* the fields the stage st reads
ReadBy(st) ==
    CASE st = "train_model" -> {"graph", "labels"}
      [] st = "get_predictions" -> {"maps", "graph", "model"}
      [] st = "get_graph_data_for_visualization" -> {"maps", "graph"}
      [] OTHER -> {}

\* C24: overlapping requests on the global detector never interleave their
\* stages: at most one run is between its first and its last stage, and
\* the node maps, graph, labels and model a run is about to read were
\* written by itself or by a run that has finished.
C24_RunsDoNotInterleave ==
    /\ \A t, u \in Tasks : (Running(t) /\ Running(u)) => t = u
    /\ \A t \in Tasks : \A f \in ReadBy(task_pc[t]) :
           writer[f] = t \/ (writer[f] # 0 /\ task_pc[writer[f]] = "done")

\* a second request has arrived while a run is between its stages, and
\* another run has finished before
C24_Witness ==
    \E t, u, v \in Tasks :
        /\ task_pc[t] = "get_predictions" /\ loop_task = t
        /\ task_pc[u] = "load_malicious_data"
        /\ task_pc[v] = "done" /\ writer["truth"] = t

-----------------------------------------------------------------------------
\* C25: the indices build_graph assigns and, for equal model scores, the
\* order of the ranked users do not depend on the order in which the sets
\* of users, pcs and domains are iterated: every iteration order gives the
\* node_id of this run, and with all scores equal the ranking of this run.
C25_IndependentOfIterationOrder ==
    \A uorder \in Orders(DayUsers), porder \in Orders(DayPcs),
       dorder \in Orders(DayDomains) :
        /\ (StageStarted("build_graph") /\ ~NoEdgeDay) =>
               node_id = NodeIds(uorder, porder, dorder)
        /\ (Succeeded /\ \A i, j \in DOMAIN raw_scores : raw_scores[i] = raw_scores[j]) =>
               result.suspicious_users =
                   Predictions(raw_scores, data, NodeIds(uorder, porder, dorder),
                               node_type, malicious_users, top_k)

-----------------------------------------------------------------------------
\* C26: the stages of run_analysis run in the fixed order: every step of a
\* run starts the stage that follows the ones started so far, starts it only
\* while the run has produced no result, and a run that has failed starts no
\* further stage.
C26_StagesInFixedOrder ==
    [][/\ result.status = "none"
       /\ Len(stages) < Len(StageOrder)
       /\ stages = SubSeq(StageOrder, 1, Len(stages))
       /\ stages' = SubSeq(StageOrder, 1, Len(stages) + 1)
       /\ result'.status = "error" => pc' = "done"]_vars

\* a run has failed in the day selection after the two loads and has stopped
\* there
C26_Witness ==
    /\ pc = "done"
    /\ result.status = "error"
    /\ stages = SubSeq(StageOrder, 1, 3)

-----------------------------------------------------------------------------
\* C27: within one train_model call on a graph with a trainMask-true node,
\* the fallback injects labels in at most one epoch, a label that is 1 during
\* training is 1 in every later epoch and when train_model returns, and when
\* a trainMask-true node already has label 1 training leaves the label
\* vector as it is.
C27_FallbackInjectsOnce ==
    [][(pc = "train_epoch" /\ TrainNodes(data) # {}) =>
          /\ injections' <= 1
          /\ (data'.y # data.y) => (injections' = injections + 1)
          /\ \A i \in DOMAIN data.y : data.y[i] = 1 => data'.y[i] = 1
          /\ Positives(data) # {} => data'.y = data.y]_vars

\* train_model has returned after all its epochs, one of which injected
\* labels, and three users are labelled
C27_Witness ==
    /\ pc = "get_predictions"
    /\ epoch = Epochs
    /\ injections = 1
    /\ Cardinality(Positives(data)) = 3

-----------------------------------------------------------------------------
\* C28: get_predictions scores a graph only with the model train_model made
\* for that graph: called right after a build_graph that returned a graph,
\* with no train_model in between, get_predictions raises.
C28_ModelMatchesGraph ==
    [][(last_call = "build_graph" /\ ~NoEdgeDay /\ last_call' = "get_predictions") =>
          raised' # ""]_vars

-----------------------------------------------------------------------------
\* C29: a build_graph call that finds no edge for its day leaves the graph,
\* the node-index map and the node-type map as they were, so that after any
\* calls the node-type map holds exactly the nodes of the graph of the
\* instance.
C29_BuildFailureKeepsState ==
    [][/\ (last_call' = "build_graph" /\ NoEdgeDay') =>
             UNCHANGED <<data, node_id, node_type>>
       /\ data' # NoData => DOMAIN node_type' = DOMAIN data'.y]_vars

-----------------------------------------------------------------------------
\* C30: in run_analysis, when the logs hold a day, the selected day has a
\* log record, so build_graph makes a graph with an edge and a node of type
\* user, and the run does not end with "Failed to build graph".
C30_SelectedDayHasRecord ==
    (Selected /\ AvailableDays # {}) =>
        /\ ~NoEdgeDay
        /\ result.error # "Failed to build graph"
        /\ StageStarted("build_graph") =>
               /\ pc = "train_model"
               /\ data # NoData
               /\ Len(data.edge_index) >= 1
               /\ \E i \in DOMAIN node_type : node_type[i] = "user"

\* the graph was built for a day chosen as the closest to a malicious day
\* that is in no log, among two days of the logs
C30_Witness ==
    /\ StageStarted("build_graph") /\ pc = "train_model"
    /\ malicious_days # {}
    /\ malicious_days \cap AvailableDays = {}
    /\ Cardinality(AvailableDays) >= 2
    /\ Len(data.edge_index) >= 1

====
